---- MODULE Spec2Model ----
(***************************************************************************)
(* A model of pr_review_bot.py: PRReviewBot.review and the helpers it      *)
(* calls.  The two collaborators (the git subprocess and the Ollama HTTP   *)
(* endpoint) are the environment: every call to one of them either raises  *)
(* or returns a value drawn from a small set.                              *)
(*                                                                         *)
(* Text.  A Python str is modelled as a sequence of chunks whose           *)
(* concatenation is the string.  A chunk is either one whitespace or      *)
(* line-break character (see Whitespace) or a run of other text;           *)
(* str.strip, str.splitlines and textwrap.dedent only ever look at such    *)
(* characters, so they act on chunks exactly as they act on characters.    *)
(* A character a TLA+ string cannot hold is written <U+hhhh>.              *)
(***************************************************************************)
EXTENDS Naturals, Sequences, FiniteSets, TLC

VARIABLES
    pc,        \* position of review(): "start", "diff", "content", "analyze", "call_model", "loop", "returned", "raised"
    source,    \* argument of review(): the feature ref
    target,    \* argument of review(): the base ref
    files,     \* local `files` of review()
    idx,       \* position of the for loop in `files` (1-based)
    diff,      \* local `diff` of the current iteration
    content,   \* local `content` of the current iteration
    prompt,    \* local `prompt` of _analyze
    reviews,   \* local `reviews` of review()
    result,    \* what review() gave its caller: a return value or an exception
    calls      \* every collaborator call made so far, in order, with its outcome

vars == <<pc, source, target, files, idx, diff, content, prompt, reviews, result, calls>>

-----------------------------------------------------------------------------
(* Bounds of the model *)

\* the number of lines of `git diff --name-only` output that are explored
MaxLines == 2

\* the number of chunks of the diff and content texts _analyze is applied to
MaxTextLen == 3

-----------------------------------------------------------------------------
(* Text helpers: Python str operations on chunk sequences *)

NL == "\n"

CR == "\r"

\* the characters at which str.splitlines() ends a line ("\r\n" ends one line)
LineBreaks ==
    {NL, CR, "<U+000B>", "\f", "<U+001C>", "<U+001D>", "<U+001E>", "<U+0085>",
     "<U+2028>", "<U+2029>"}

\* the characters for which str.isspace() is true: what str.strip() removes
Whitespace ==
    {" ", "\t", NL, CR, "<U+000B>", "\f", "<U+001C>", "<U+001D>", "<U+001E>", "<U+001F>",
     "<U+0085>", "<U+00A0>", "<U+1680>", "<U+2000>", "<U+2001>", "<U+2002>", "<U+2003>",
     "<U+2004>", "<U+2005>", "<U+2006>", "<U+2007>", "<U+2008>", "<U+2009>", "<U+200A>",
     "<U+2028>", "<U+2029>", "<U+202F>", "<U+205F>", "<U+3000>"}

\* str.isspace for one character
IsSpace(c) == c \in Whitespace

\* the characters textwrap's regular expressions call whitespace: [ \t]
IsBlank(c) == c \in {" ", "\t"}

RECURSIVE Concat(_)
\* "".join(ts)
Concat(ts) == IF ts = <<>> THEN <<>> ELSE Head(ts) \o Concat(Tail(ts))

RECURSIVE LStrip(_)
LStrip(t) == IF t # <<>> /\ IsSpace(Head(t)) THEN LStrip(Tail(t)) ELSE t

RECURSIVE RStrip(_)
RStrip(t) == IF t # <<>> /\ IsSpace(t[Len(t)]) THEN RStrip(SubSeq(t, 1, Len(t) - 1)) ELSE t

\* str.strip()
Strip(t) == RStrip(LStrip(t))

\* index of the first "\n" of t, or Len(t) + 1
FirstNL(t) ==
    IF \E i \in 1..Len(t) : t[i] = NL
    THEN CHOOSE i \in 1..Len(t) : t[i] = NL /\ \A j \in 1..(i - 1) : t[j] # NL
    ELSE Len(t) + 1

\* index of the first line break of t, or Len(t) + 1
FirstBreak(t) ==
    IF \E i \in 1..Len(t) : t[i] \in LineBreaks
    THEN CHOOSE i \in 1..Len(t) : t[i] \in LineBreaks /\ \A j \in 1..(i - 1) : t[j] \notin LineBreaks
    ELSE Len(t) + 1

RECURSIVE SplitLines(_)
\* str.splitlines(): a line ends at any of LineBreaks, "\r\n" counts as one,
\* and there is no empty last line after a final line break
SplitLines(t) ==
    IF t = <<>> THEN <<>>
    ELSE LET k == FirstBreak(t)
             n == IF k < Len(t) /\ t[k] = CR /\ t[k + 1] = NL THEN 2 ELSE 1
         IN  <<SubSeq(t, 1, k - 1)>> \o SplitLines(SubSeq(t, k + n, Len(t)))

RECURSIVE UniversalNewlines(_)
\* subprocess.run(text=True): "\r\n" and "\r" of the child's output become "\n"
UniversalNewlines(t) ==
    IF t = <<>> THEN <<>>
    ELSE IF Head(t) = CR
         THEN <<NL>> \o UniversalNewlines(IF Len(t) > 1 /\ t[2] = NL THEN Tail(Tail(t)) ELSE Tail(t))
         ELSE <<Head(t)>> \o UniversalNewlines(Tail(t))

RECURSIVE SplitNL(_)
\* str.split("\n"): the lines the (?m) anchors ^ and $ delimit
SplitNL(t) ==
    LET k == FirstNL(t)
    IN  IF k > Len(t) THEN <<t>>
        ELSE <<SubSeq(t, 1, k - 1)>> \o SplitNL(SubSeq(t, k + 1, Len(t)))

RECURSIVE JoinNL(_)
\* "\n".join(ls)
JoinNL(ls) ==
    IF ls = <<>> THEN <<>>
    ELSE IF Len(ls) = 1 THEN ls[1]
    ELSE ls[1] \o <<NL>> \o JoinNL(Tail(ls))

\* s.startswith(p)
StartsWith(s, p) == Len(p) =< Len(s) /\ SubSeq(s, 1, Len(p)) = p

-----------------------------------------------------------------------------
(* textwrap.dedent (CPython 3.11) *)

\* a line matched by _whitespace_only_re, ^[ \t]+$
WhitespaceOnly(line) == line # <<>> /\ \A i \in 1..Len(line) : IsBlank(line[i])

RECURSIVE Indent(_)
\* the group (^[ \t]*) of _leading_whitespace_re on one line
Indent(line) ==
    IF line # <<>> /\ IsBlank(Head(line)) THEN <<Head(line)>> \o Indent(Tail(line)) ELSE <<>>

\* one round of the loop `for indent in indents` once margin is not None
NextMargin(margin, indent) ==
    IF StartsWith(indent, margin) THEN margin
    ELSE IF StartsWith(margin, indent) THEN indent
    ELSE LET i == CHOOSE k \in 1..Len(margin) :
                      /\ margin[k] # indent[k]
                      /\ \A j \in 1..(k - 1) : margin[j] = indent[j]
         IN  SubSeq(margin, 1, i - 1)

RECURSIVE FoldMargin(_, _)
FoldMargin(margin, indents) ==
    IF indents = <<>> THEN margin
    ELSE FoldMargin(NextMargin(margin, Head(indents)), Tail(indents))

\* re.sub(r'(?m)^' + margin, '', text) on one line
RemoveMargin(line, margin) ==
    IF StartsWith(line, margin) THEN SubSeq(line, Len(margin) + 1, Len(line)) ELSE line

dedent(text) ==
    LET raw     == SplitNL(text)
        lines   == [i \in DOMAIN raw |-> IF WhitespaceOnly(raw[i]) THEN <<>> ELSE raw[i]]
        \* after the substitution a line is empty or holds a character outside [ \t\n]
        inked   == SelectSeq(lines, LAMBDA l : l # <<>>)
        indents == [i \in DOMAIN inked |-> Indent(inked[i])]
    IN  IF indents = <<>> THEN JoinNL(lines)              \* margin is None
        ELSE LET margin == FoldMargin(Head(indents), Tail(indents))
             IN  IF margin = <<>> THEN JoinNL(lines)
                 ELSE JoinNL([i \in DOMAIN lines |-> RemoveMargin(lines[i], margin)])

-----------------------------------------------------------------------------
(* PRReviewBot._analyze: the prompt *)

\* the indentation of the f-string's lines in the source file: 12 spaces
TemplateIndent == [i \in 1..12 |-> " "]

\* the grave accent that quotes {file_path}; the chunk stands for that one
\* character, which a TLA+ string cannot hold
Backtick == "<grave>"

\* one indented line of the f-string
TLine(chunks) == TemplateIndent \o chunks \o <<NL>>

\* the f-string of _analyze with its five fields substituted
PromptTemplate(file_path, d, full_content, src, tgt) ==
       <<NL>>
    \o TLine(<<"You are an expert software engineer assisting with pull request reviews.">>)
    \o TLine(<<"Compare two branches:", " ", tgt, " ", "(base) and", " ", src, " ", "(feature).">>)
    \o TLine(<<"A developer has changed the file", " ", Backtick>> \o file_path
             \o <<Backtick, ". You are given the full">>)
    \o TLine(<<"content of the file from the feature branch along with the diff patch">>)
    \o TLine(<<"between the base and feature branch. Consider the entire file but limit">>)
    \o TLine(<<"your comments strictly to lines that are part of the diff. Highlight">>)
    \o TLine(<<"potential bugs, wrong logic, bad coding practices, and opportunities for">>)
    \o TLine(<<"improvement. Be concise and reference line numbers from the patch when">>)
    \o TLine(<<"possible.">>)
    \o <<NL>>
    \o TLine(<<"<file_content>">>)
    \o TLine(full_content)
    \o TLine(<<"</file_content>">>)
    \o <<NL>>
    \o TLine(<<"<diff_patch>">>)
    \o TLine(d)
    \o TLine(<<"</diff_patch>">>)
    \o <<NL>>
    \o TLine(<<"Provide your review now.">>)
    \o TemplateIndent

\* the prompt _analyze hands to _call_model
BuildPrompt(file_path, d, full_content, src, tgt) ==
    Strip(dedent(PromptTemplate(file_path, d, full_content, src, tgt)))

-----------------------------------------------------------------------------
(* The environment: what the collaborators may answer *)

\* the (source, target) pairs review() is called with
RefPairs == {<<"feature", "main">>, <<"main", "feature">>}

\* lines `git diff --name-only` may print: paths, a path with a blank at its
\* end, a path made of one blank
RawLines == {<<"a">>, <<"b">>, <<"a", " ">>, <<" ">>}

\* what `git diff --name-only` prints with core.quotePath=false for the files
\* "a<U+00A0>" and "b<U+2028>c"
UnquotedListing == <<"a", "<U+00A0>", NL, "b", "<U+2028>", "c", NL>>

\* what `git diff --name-only` may print: up to MaxLines lines, each ended by
\* "\n", or the unquoted listing
Listings ==
    UNION {{Concat([i \in 1..n |-> ls[i] \o <<NL>>]) : ls \in [1..n -> RawLines]} : n \in 0..MaxLines}
    \cup {UnquotedListing}

\* stdout of `git diff target..source -- path`: empty, or a hunk with a blank
\* context line
Diffs == {<<>>, <<"@@ -1,2 +1,3 @@", NL, " ", NL, "+", "x", NL>>}

\* stdout of `git show source:path`
Contents == {<<"x", NL>>}

\* a JSON object as response.json() gives it: a dict
JsonObject(fields) == [json |-> "object", fields |-> fields]

\* what response.json() may give for a file `path`: an object with a fixed
\* text, with the path itself or with no "response" key at all, or a value that
\* is no object (an array, null)
Payloads(path) ==
    { JsonObject([model |-> <<"llama3">>, response |-> <<"stub response">>]),
      JsonObject([model |-> <<"llama3">>, response |-> path]),
      JsonObject([model |-> <<"llama3">>]),
      [json |-> "array", fields |-> <<>>],
      [json |-> "null", fields |-> <<>>] }

\* An exception is named by its class.  Nothing in pr_review_bot.py catches an
\* exception, so what a call raises leaves review() as it is, whatever its
\* class; OtherException stands for every class the two sets below do not name.
OtherException == "<any other exception>"

\* what _run_git raises:
\*   CalledProcessError   check=True and git exits with a non-zero status
\*   UnicodeDecodeError   text=True and the output is not UTF-8
\*   FileNotFoundError, NotADirectoryError, PermissionError, BlockingIOError,
\*   OSError              starting git in cwd=repo_path fails (OSError itself
\*                        for ELOOP, ENAMETOOLONG, ENOEXEC, EMFILE, ENOMEM)
\*   ValueError           a NUL character in repo_path or in an argument
\*   TypeError            repo_path or an argument is no str
\*   UnicodeEncodeError   an argument that the file system encoding cannot hold
\*   MemoryError, KeyboardInterrupt   while the output is read
VcsError ==
    {"CalledProcessError", "UnicodeDecodeError",
     "FileNotFoundError", "NotADirectoryError", "PermissionError",
     "BlockingIOError", "OSError",
     "ValueError", "TypeError", "UnicodeEncodeError",
     "MemoryError", "KeyboardInterrupt",
     OtherException}

\* what requests.post (with timeout=300), raise_for_status and response.json
\* raise:
\*   the classes of requests.exceptions a POST of a JSON body can end in
\*   (HTTPError from raise_for_status, JSONDecodeError from response.json)
\*   ValueError           response.json on an integer of more than 4300 digits
\*   RecursionError       response.json on a deeply nested body
\*   TypeError            an endpoint or model that is no str
\*   MemoryError, KeyboardInterrupt   while the answer is awaited or read
\* AttributeError, raised by data.get on a body that is no object, is the
\* ELSE branch of CallModel.
InferenceError ==
    {"ConnectionError", "SSLError", "ProxyError",
     "Timeout", "ConnectTimeout", "ReadTimeout",
     "TooManyRedirects", "MissingSchema", "InvalidSchema", "InvalidURL",
     "InvalidProxyURL", "InvalidHeader", "InvalidJSONError", "RetryError",
     "ChunkedEncodingError", "ContentDecodingError",
     "HTTPError", "JSONDecodeError",
     "ValueError", "RecursionError", "TypeError",
     "MemoryError", "KeyboardInterrupt",
     OtherException}

-----------------------------------------------------------------------------
(* Helpers of PRReviewBot *)

\* _changed_files without its filter `if line.strip()`
changed_files_unfiltered(out) ==
    LET lines == SplitLines(out)
    IN  [i \in DOMAIN lines |-> Strip(lines[i])]

\* the list comprehension of _changed_files
changed_files(out) ==
    LET lines    == SplitLines(out)
        stripped == [i \in DOMAIN lines |-> Strip(lines[i])]
    IN  SelectSeq(stripped, LAMBDA l : l # <<>>)

\* the arguments _changed_files gives _run_git
ListArgs(src, tgt) == << <<"diff">>, <<"--name-only">>, <<tgt, "..", src>> >>

\* _file_diff with the two refs of the range exchanged
DiffArgsSwapped(src, tgt, path) == << <<"diff">>, <<src, "..", tgt>>, <<"--">>, path >>

\* the arguments _file_diff gives _run_git
DiffArgs(src, tgt, path) == << <<"diff">>, <<tgt, "..", src>>, <<"--">>, path >>

\* the arguments _file_content gives _run_git
ShowArgs(branch, path) == << <<"show">>, <<branch, ":">> \o path >>

\* dict.get that never finds the key
GetDefault(data, key, default) == default

\* dict.get(key, default)
Get(data, key, default) == IF key \in DOMAIN data THEN data[key] ELSE default

\* FileReview(path=..., comments=...)
FileReview(path, comments) == [path |-> path, comments |-> comments]

\* reviews.insert(0, ...) in place of reviews.append(...)
ReviewsPrepend(rs, path, comments) == <<[path |-> path, comments |-> comments]>> \o rs

\* reviews.append(FileReview(path=path, comments=comments))
ReviewsAppend(rs, path, comments) == Append(rs, FileReview(path, comments))

\* one collaborator call as the log keeps it: what was asked, whether it
\* returned, what it returned or what it raised
Call(op, args, ok, ret, err) == [op |-> op, args |-> args, ok |-> ok, ret |-> ret, err |-> err]

\* _run_git returns stdout `out`
GitOk(args, out) == Call("git", args, TRUE, out, "none")

\* _run_git raises
GitFail(args, err) == Call("git", args, FALSE, <<>>, err)

\* line 70: data.get exists on a dict only
IsDict(data) == data.json = "object"

\* an exception leaves review(): nothing is caught anywhere
Raise(err) ==
    /\ pc' = "raised"
    /\ result' = [kind |-> "raise", value |-> <<>>, error |-> err]

-----------------------------------------------------------------------------
(* review() *)

Init ==
    /\ pc = "start"
    /\ \E p \in RefPairs : source = p[1] /\ target = p[2]
    /\ files = <<>>
    /\ idx = 1
    /\ diff = <<>>
    /\ content = <<>>
    /\ prompt = <<>>
    /\ reviews = <<>>
    /\ result = [kind |-> "none", value |-> <<>>, error |-> "none"]
    /\ calls = <<>>

\* _changed_files that answers a failed listing with no files
ChangedFilesSwallow ==
    /\ pc = "start"
    /\ \/ \E out \in Listings :
            /\ calls' = Append(calls, [op |-> "git", args |-> << <<"diff">>, <<"--name-only">>, <<target, "..", source>> >>, ok |-> TRUE, ret |-> out, err |-> "none"])
            /\ files' = SelectSeq([i \in DOMAIN SplitLines(out) |-> Strip(SplitLines(out)[i])], LAMBDA l : l # <<>>)
       \/ /\ calls' = Append(calls, [op |-> "git", args |-> << <<"diff">>, <<"--name-only">>, <<target, "..", source>> >>, ok |-> FALSE, ret |-> <<>>, err |-> "CalledProcessError"])
          /\ files' = <<>>
    /\ reviews' = <<>>
    /\ idx' = 1
    /\ pc' = "loop"
    /\ UNCHANGED <<source, target, prompt, diff, content, result>>

\* files = self._changed_files(source, target); reviews = []
ChangedFiles ==
    /\ pc = "start"
    /\ \/ \E stdout \in Listings :
            LET out == UniversalNewlines(stdout)
            IN  /\ calls' = Append(calls, GitOk(ListArgs(source, target), out))
                /\ files' = changed_files(out)
                /\ reviews' = <<>>
                /\ idx' = 1
                /\ pc' = "loop"
                /\ UNCHANGED result
       \/ \E err \in VcsError :
            /\ calls' = Append(calls, GitFail(ListArgs(source, target), err))
            /\ Raise(err)
            /\ UNCHANGED <<files, reviews, idx>>
    /\ UNCHANGED <<source, target, prompt, diff, content>>

\* _file_diff that answers a failed diff with the empty patch
FileDiffSwallow ==
    /\ pc = "loop"
    /\ idx =< Len(files)
    /\ \/ \E d \in Diffs :
            /\ calls' = Append(calls, [op |-> "git", args |-> << <<"diff">>, <<target, "..", source>>, <<"--">>, files[idx] >>, ok |-> TRUE, ret |-> d, err |-> "none"])
            /\ diff' = d
       \/ /\ calls' = Append(calls, [op |-> "git", args |-> << <<"diff">>, <<target, "..", source>>, <<"--">>, files[idx] >>, ok |-> FALSE, ret |-> <<>>, err |-> "CalledProcessError"])
          /\ diff' = <<>>
    /\ pc' = "content"
    /\ UNCHANGED <<source, target, prompt, files, idx, content, reviews, result>>

\* diff = self._file_diff(source, target, path)
FileDiff ==
    /\ pc = "loop"
    /\ idx =< Len(files)
    /\ \/ \E d \in Diffs :
            /\ calls' = Append(calls, GitOk(DiffArgs(source, target, files[idx]), UniversalNewlines(d)))
            /\ diff' = UniversalNewlines(d)
            /\ pc' = "content"
            /\ UNCHANGED result
       \/ \E err \in VcsError :
            /\ calls' = Append(calls, GitFail(DiffArgs(source, target, files[idx]), err))
            /\ Raise(err)
            /\ UNCHANGED diff
    /\ UNCHANGED <<source, target, prompt, files, idx, content, reviews>>

\* a loop body that gives up on the file whose content cannot be read and
\* goes on with the next one
FileContentSkip ==
    /\ pc = "content"
    /\ \/ \E c \in Contents :
            /\ calls' = Append(calls, [op |-> "git", args |-> << <<"show">>, <<source, ":">> \o files[idx] >>, ok |-> TRUE, ret |-> c, err |-> "none"])
            /\ content' = c
            /\ pc' = "analyze"
            /\ UNCHANGED idx
       \/ /\ calls' = Append(calls, [op |-> "git", args |-> << <<"show">>, <<source, ":">> \o files[idx] >>, ok |-> FALSE, ret |-> <<>>, err |-> "CalledProcessError"])
          /\ idx' = idx + 1
          /\ pc' = "loop"
          /\ UNCHANGED content
    /\ UNCHANGED <<source, target, prompt, files, diff, reviews, result>>

\* content = self._file_content(source, path)
FileContent ==
    /\ pc = "content"
    /\ \/ \E c \in Contents :
            /\ calls' = Append(calls, GitOk(ShowArgs(source, files[idx]), UniversalNewlines(c)))
            /\ content' = UniversalNewlines(c)
            /\ pc' = "analyze"
            /\ UNCHANGED result
       \/ \E err \in VcsError :
            /\ calls' = Append(calls, GitFail(ShowArgs(source, files[idx]), err))
            /\ Raise(err)
            /\ UNCHANGED content
    /\ UNCHANGED <<source, target, prompt, files, idx, diff, reviews>>

\* comments = self._analyze(path, diff, content, source, target), up to the
\* call of _call_model: prompt = textwrap.dedent(f"""...""").strip()
Analyze ==
    /\ pc = "analyze"
    /\ prompt' = BuildPrompt(files[idx], diff, content, source, target)
    /\ pc' = "call_model"
    /\ UNCHANGED <<source, target, files, idx, diff, content, reviews, result, calls>>

\* return self._call_model(prompt), and back in review():
\* reviews.append(FileReview(path=path, comments=comments))
CallModel ==
    /\ pc = "call_model"
    /\ \/ \E data \in Payloads(files[idx]) :
             /\ calls' = Append(calls, Call("post", <<prompt>>, TRUE, data, "none"))
             /\ IF IsDict(data)
                THEN /\ reviews' = ReviewsAppend(reviews, files[idx], Get(data.fields, "response", <<>>))
                     /\ idx' = idx + 1
                     /\ pc' = "loop"
                     /\ UNCHANGED result
                ELSE \* 'list' object has no attribute 'get'
                     /\ Raise("AttributeError")
                     /\ UNCHANGED <<reviews, idx>>
       \/ \E err \in InferenceError :
             /\ calls' = Append(calls, Call("post", <<prompt>>, FALSE, <<>>, err))
             /\ Raise(err)
             /\ UNCHANGED <<reviews, idx>>
    /\ UNCHANGED <<source, target, files, diff, content, prompt>>

\* return reviews
Return ==
    /\ pc = "loop"
    /\ idx > Len(files)
    /\ pc' = "returned"
    /\ result' = [kind |-> "return", value |-> reviews, error |-> "none"]
    /\ UNCHANGED <<source, target, prompt, files, idx, diff, content, reviews, calls>>

Next == ChangedFiles \/ FileDiff \/ FileContent \/ Analyze \/ CallModel \/ Return

Spec == Init /\ [][Next]_vars

-----------------------------------------------------------------------------
(* _analyze on its own: the prompt as a function of its five arguments *)

\* the characters the diff and content texts are made of
TextAlphabet == {"#", " ", NL}

Texts == UNION {[1..n -> TextAlphabet] : n \in 0..MaxTextLen}

\* review() stands at line 107 for its only file, with any diff and content
InitPrompt ==
    /\ pc = "analyze"
    /\ \E p \in RefPairs : source = p[1] /\ target = p[2]
    /\ files = << <<"a">> >>
    /\ idx = 1
    /\ diff \in Texts
    /\ content \in Texts
    /\ prompt = <<>>
    /\ reviews = <<>>
    /\ result = [kind |-> "none", value |-> <<>>, error |-> "none"]
    /\ calls = <<>>

NextPrompt == Analyze \/ CallModel \/ Return

SpecPrompt == InitPrompt /\ [][NextPrompt]_vars

-----------------------------------------------------------------------------
(* Properties *)

\* the successful model calls made so far, in order
OkPosts == SelectSeq(calls, LAMBDA c : c.op = "post" /\ c.ok)

\* a call of `git show`
IsShow(c) == c.op = "git" /\ c.args[1] = <<"show">>

\* needle in hay, chunk by chunk.  It never finds a substring that is not
\* there, and it misses one only if it begins or ends inside a chunk of hay:
\* the formulas below look for whole chunks only (a text over TextAlphabet, a
\* ref, a path between its grave accents).
Contains(hay, needle) ==
    \E i \in 0..(Len(hay) - Len(needle)) : SubSeq(hay, i + 1, i + Len(needle)) = needle

\* the answer of a model call is a JSON object with the generated text
HasResponse(data) == data.json = "object" /\ "response" \in DOMAIN data.fields

\* every chunk of a text is whitespace: no line of it names a path
AllBlank(t) == \A i \in 1..Len(t) : IsSpace(t[i])

\* the listing call returned `out`
Listed == calls # <<>> /\ calls[1].ok

\* C1: the reviews gathered so far carry, in order, the first paths of the
\* ChangeSet, and a review() that returns gives one entry per path of the
\* ChangeSet, entry i carrying path i.
C1_OrderPreserved ==
    /\ Len(reviews) =< Len(files)
    /\ \A i \in 1..Len(reviews) : reviews[i].path = files[i]
    /\ pc = "returned" =>
          /\ result.kind = "return"
          /\ Len(result.value) = Len(files)
          /\ \A i \in 1..Len(files) : result.value[i].path = files[i]

C1_Witness ==
    /\ pc = "returned"
    /\ Len(files) = 2
    /\ files[1] # files[2]
    /\ Len(result.value) = 2

\* C2: a per-file collaborator call (diff, show or model) that fails is the
\* last call review() ever makes (no retry, no later file), and review() ends
\* by raising: the reviews gathered so far are not returned.
C2_FailureAborts ==
    \A k \in 2..Len(calls) :
        ~calls[k].ok =>
            /\ k = Len(calls)
            /\ pc = "raised"
            /\ result.kind = "raise"
            /\ result.value = <<>>

C2_Witness ==
    /\ pc = "raised"
    /\ Len(files) = 2
    /\ Len(reviews) = 1
    /\ calls[Len(calls)].op = "post"
    /\ ~calls[Len(calls)].ok

\* C3 as claimed: a failed content fetch fails that file only; review() does
\* not end by raising.
C3_ContentFailureIsPerFile ==
    \A k \in 1..Len(calls) : (IsShow(calls[k]) /\ ~calls[k].ok) => pc # "raised"

\* C3 amended: a failed content fetch ends the whole review() with the error
\* the git call raised; the file's model call is never made and no later file is processed.
C3_ContentFailureAborts ==
    \A k \in 1..Len(calls) :
        (IsShow(calls[k]) /\ ~calls[k].ok) =>
            /\ k = Len(calls)
            /\ pc = "raised"
            /\ result.kind = "raise"
            /\ result.error = calls[k].err
            /\ Len(OkPosts) = Len(reviews)
            /\ Len(reviews) = idx - 1

C3_Witness ==
    /\ calls # <<>>
    /\ IsShow(calls[Len(calls)])
    /\ ~calls[Len(calls)].ok
    /\ Len(files) = 2
    /\ idx = 1
    /\ pc = "raised"

\* C4: when the listing fails, review() raises the error the git call raised
\* and no other collaborator call (diff, show, model) is ever made.
C4_ListingFailure ==
    (calls # <<>> /\ ~calls[1].ok) =>
        /\ Len(calls) = 1
        /\ pc = "raised"
        /\ result.kind = "raise"
        /\ result.error = calls[1].err

C4_Witness ==
    /\ Len(calls) = 1
    /\ calls[1].args[2] = <<"--name-only">>
    /\ ~calls[1].ok
    /\ pc = "raised"

\* C5: when the listing is empty or holds blank lines only, no diff, show or
\* model call is made and review() returns the empty sequence.
C5_EmptyChangeSet ==
    (Listed /\ AllBlank(calls[1].ret)) =>
        /\ Len(calls) = 1
        /\ pc \in {"loop", "returned"}
        /\ pc = "returned" => (result.kind = "return" /\ result.value = <<>>)

C5_Witness ==
    /\ Listed
    /\ calls[1].ret # <<>>
    /\ AllBlank(calls[1].ret)
    /\ \E i \in 1..Len(calls[1].ret) : calls[1].ret[i] = " "
    /\ pc = "returned"
    /\ result.value = <<>>

\* C6: entry i's comments are the text of the i-th successful model answer,
\* unmodified, and that answer was given to a prompt naming entry i's path.
C6_CommentsPassThrough ==
    /\ Len(reviews) =< Len(OkPosts)
    /\ \A i \in 1..Len(reviews) :
          /\ HasResponse(OkPosts[i].ret) =>
                reviews[i].comments = OkPosts[i].ret.fields["response"]
          /\ Contains(OkPosts[i].args[1], <<Backtick>> \o reviews[i].path \o <<Backtick>>)
    /\ pc = "returned" => result.value = reviews

C6_Witness ==
    /\ pc = "returned"
    /\ Len(result.value) = 2
    /\ result.value[1].path # result.value[2].path
    /\ result.value[1].comments = <<"stub response">>
    /\ result.value[2].comments = result.value[2].path

\* C7: the prompt of every model call holds the content and the diff it was
\* built from as unmodified substrings, and both ref names.
C7_PromptHoldsInputs ==
    \A k \in 1..Len(calls) :
        calls[k].op = "post" =>
            /\ Contains(calls[k].args[1], content)
            /\ Contains(calls[k].args[1], diff)
            /\ Contains(calls[k].args[1], <<source>>)
            /\ Contains(calls[k].args[1], <<target>>)

\* C8 as claimed: after a successful model call with a parseable answer the
\* file has its FileReview: with the generated text when the answer has one,
\* with the empty string when it has none, and review() goes on to the next
\* file or returns (it has not raised).
C8_AbsentTextIsEmpty ==
    \A k \in 1..Len(calls) :
        (calls[k].op = "post" /\ calls[k].ok) =>
            LET i == Len(SelectSeq(SubSeq(calls, 1, k), LAMBDA c : c.op = "post" /\ c.ok))
            IN  /\ i =< Len(reviews)
                /\ reviews[i].comments =
                      (IF HasResponse(calls[k].ret) THEN calls[k].ret.fields["response"] ELSE <<>>)
                /\ k = Len(calls) => pc \in {"loop", "returned"}

\* What _call_model and review() do with every answer the model call returns,
\* beside C8: when the answer is a JSON object the file has its FileReview,
\* with the generated text when the object has one and with the empty string
\* when it has none, and review() goes on; when the answer is parseable but no
\* object, review() raises AttributeError and the file gets no FileReview.
C8_ObjectAnswer ==
    \A k \in 1..Len(calls) :
        (calls[k].op = "post" /\ calls[k].ok) =>
            LET i == Len(SelectSeq(SubSeq(calls, 1, k), LAMBDA c : c.op = "post" /\ c.ok))
            IN  IF calls[k].ret.json = "object"
                THEN /\ i =< Len(reviews)
                     /\ reviews[i].comments =
                           (IF HasResponse(calls[k].ret) THEN calls[k].ret.fields["response"] ELSE <<>>)
                     /\ k = Len(calls) => pc \in {"loop", "returned"}
                ELSE /\ k = Len(calls)
                     /\ Len(reviews) = i - 1
                     /\ pc = "raised"
                     /\ result.kind = "raise"
                     /\ result.error = "AttributeError"

C8_ObjectWitness ==
    /\ pc = "returned"
    /\ Len(result.value) = 2
    /\ OkPosts[1].ret.json = "object"
    /\ ~HasResponse(OkPosts[1].ret)
    /\ result.value[1].comments = <<>>
    /\ HasResponse(OkPosts[2].ret)

\* C9: a review() that returns gives no two entries with the same path.
C9_NoDuplicatePaths ==
    pc = "returned" =>
        \A i, j \in 1..Len(result.value) :
            i # j => result.value[i].path # result.value[j].path

\* the call review() has to make at position k of the log, given the
\* ChangeSet fs and the log so far
ExpectedCall(k, fs, log, c) ==
    IF k = 1
    THEN /\ c.op = "git"
         /\ c.args = << <<"diff">>, <<"--name-only">>, <<target, "..", source>> >>
    ELSE LET i  == ((k - 2) \div 3) + 1
             ph == (k - 2) % 3
         IN  /\ i =< Len(fs)
             /\ \A j \in 1..(k - 1) : log[j].ok
             /\ ph = 0 =>
                   /\ c.op = "git"
                   /\ c.args = << <<"diff">>, <<target, "..", source>>, <<"--">>, fs[i] >>
             /\ ph = 1 =>
                   /\ c.op = "git"
                   /\ c.args = << <<"show">>, <<source, ":">> \o fs[i] >>
             /\ ph = 2 =>
                   /\ c.op = "post"
                   /\ c.args = <<prompt>>

\* C10: every step of review() leaves the log alone or appends one call, and
\* the calls are, in order: the listing, then for each path of the ChangeSet
\* in order its diff (target..source), its content at source and the model
\* call on the prompt built from exactly those two answers, each made only
\* after the call before it has returned; a review() that returns has made
\* one model call per path.
C10_SequentialCalls ==
    [][ /\ calls' # calls =>
              /\ Len(calls') = Len(calls) + 1
              /\ SubSeq(calls', 1, Len(calls)) = calls
              /\ ExpectedCall(Len(calls'), files', calls, calls'[Len(calls')])
        /\ pc' = "call_model" =>
              /\ Len(calls) = 3 * idx
              /\ prompt' = BuildPrompt(files[idx], calls[3 * idx - 1].ret, calls[3 * idx].ret,
                                       source, target)
        /\ pc' = "returned" =>
              /\ Len(calls') = 1 + 3 * Len(files')
              /\ Len(SelectSeq(calls', LAMBDA c : c.op = "post" /\ c.ok)) = Len(files')
      ]_vars

C10_Witness ==
    /\ pc = "returned"
    /\ Len(files) = 2
    /\ Len(calls) = 7
    /\ calls[4].op = "post"
    /\ calls[5].args[1] = <<"diff">>

====
